---- MODULE Spec2Model ----
(***************************************************************************)
(* The two synthetic quad generators of janus:                             *)
(*   generate_historical_graph.py  (100 points, integer cycle values)      *)
(*   generate_realistic_data.py    (1000 points, sine/cosine + noise)      *)
(* Each script is a module-level program: it opens its output file with    *)
(* mode "w" inside a with block, writes two lines per loop index and then  *)
(* prints one confirmation line.  A process p is one shell that invokes    *)
(* the script gen[p]; every f.write is one step, so that an I/O failure    *)
(* can strike at any record and a second process can run in between.       *)
(*                                                                         *)
(* Numbers.  TLC integers are 32 bits wide and a millisecond timestamp is  *)
(* not, so a timestamp is a pair <<hi, lo>> that stands for                *)
(* hi * 10^9 + lo with 0 <= lo < 10^9.  Python floats are modelled in      *)
(* fixed point, in millionths.                                             *)
(***************************************************************************)
EXTENDS Integers, Sequences, FiniteSets, TLC

(***************************************************************************)
(* Program constants                                                       *)
(***************************************************************************)
\* generate_historical_graph.py:11  for i in range(100)
hist_points == 100
\* generate_realistic_data.py:5  num_points = 1000
num_points == 1000
\* generate_realistic_data.py:6  base_temp = 23.0 (millionths)
base_temp == 23000000
\* generate_historical_graph.py:7  60 * 60 * 1000
HourMs == 60 * 60 * 1000

HIST == "historical"
REAL == "realistic"
Gens == {HIST, REAL}

SENSOR1 == "<http://example.org/sensor1>"
SENSOR2 == "<http://example.org/sensor2>"
TEMPERATURE == "<http://example.org/temperature>"
SENSOR_STREAM == "<http://example.org/sensorStream>"
XSD_DECIMAL == "<http://www.w3.org/2001/XMLSchema#decimal>"

\* (both scripts writing one file)
PathSame(g) == "data/sensors_historical_graph.nq"
\* The path each script passes to open().
Path(g) == IF g = HIST THEN "data/sensors_historical_graph.nq"
                       ELSE "data/realistic_sensors.nq"
Paths == {Path(g) : g \in Gens}

\* (a loop that stops one index early)
PointsShort(g) == IF g = HIST THEN hist_points - 1 ELSE num_points - 1
\* Number of loop iterations of each script.
Points(g) == IF g = HIST THEN hist_points ELSE num_points

(***************************************************************************)
(* Bounds of the model                                                     *)
(***************************************************************************)
\* How many times one shell invokes its script in a row.
MaxRuns == 2
\* States of the stand-in for the interpreter's random generator.
RngStates == 16
\* In the concurrent specification a process can be preempted by the other
\* one only while its loop index is below this.
PreemptWindow == 1

(***************************************************************************)
(* Wide integers: <<hi, lo>> = hi * 10^9 + lo                              *)
(***************************************************************************)
Limb == 10 ^ 9
Big(hi, lo) == <<hi, lo>>
\* b + n and b - n for a small n >= 0 (n < 10^9)
BigAdd(b, n) == IF b[2] + n >= Limb THEN <<b[1] + 1, b[2] + n - Limb>>
                                    ELSE <<b[1], b[2] + n>>
BigSub(b, n) == IF b[2] - n < 0 THEN <<b[1] - 1, b[2] - n + Limb>>
                                ELSE <<b[1], b[2] - n>>

(***************************************************************************)
(* Inputs                                                                  *)
(***************************************************************************)
\* int(time.time() * 1000): the spec's scenario instant, and an instant whose
\* hour-ago series crosses a multiple of 10^9 inside the loop.
Nows == {Big(1700, 0), Big(1700, 3550000)}
\* The state the random module is seeded with at import (OS entropy).
Seeds == {0, 5}

(***************************************************************************)
(* Value models                                                            *)
(***************************************************************************)
\* 10^6 * sin(2*pi*k/100), k = 0..99
SinTable ==
  << 0, 62791, 125333, 187381, 248690, 309017, 368125, 425779, 481754, 535827,
     587785, 637424, 684547, 728969, 770513, 809017, 844328, 876307, 904827, 929776,
     951057, 968583, 982287, 992115, 998027, 1000000, 998027, 992115, 982287, 968583,
     951057, 929776, 904827, 876307, 844328, 809017, 770513, 728969, 684547, 637424,
     587785, 535827, 481754, 425779, 368125, 309017, 248690, 187381, 125333, 62791,
     0, -62791, -125333, -187381, -248690, -309017, -368125, -425779, -481754, -535827,
     -587785, -637424, -684547, -728969, -770513, -809017, -844328, -876307, -904827, -929776,
     -951057, -968583, -982287, -992115, -998027, -1000000, -998027, -992115, -982287, -968583,
     -951057, -929776, -904827, -876307, -844328, -809017, -770513, -728969, -684547, -637424,
     -587785, -535827, -481754, -425779, -368125, -309017, -248690, -187381, -125333, -62791 >>

\* math.sin(i * 2 * math.pi / 100) and math.cos(...), in millionths
Sin100(i) == SinTable[(i % 100) + 1]
Cos100(i) == SinTable[((i + 25) % 100) + 1]

\* (an amplitude of 3.0)
SineTriple(i) == 3 * Sin100(i)
\* 2.0 * math.sin(...), 2.0 * math.cos(...)
sine_component(i) == 2 * Sin100(i)
cosine_component(i) == 2 * Cos100(i)

\* The random generator: a deterministic state machine, advanced once per
\* draw; random() is x / RngStates in [0, 1).
RngNext(x) == (x + 7) % RngStates
\* random.uniform(a, b) = a + (b - a) * random()
Uniform(a, b, x) == a + ((b - a) * x) \div RngStates
\* random.uniform(-0.5, 0.5)
Noise(x) == Uniform(-500000, 500000, x)

\* val1, val2 of the realistic script
Val1(i, x) == base_temp + sine_component(i) + Noise(x)
Val2(i, x) == base_temp + cosine_component(i) + Noise(x)

\* 20 + (i % 5), 22 + (i % 5) of the historical script
HistVal1(i) == 20 + (i % 5)
\* (sensor2 given the base of sensor1)
HistVal2Same(i) == 20 + (i % 5)
HistVal2(i) == 22 + (i % 5)

(***************************************************************************)
(* Formatting                                                              *)
(* A decimal numeral is <<sign, whole, fraction digits>>.                  *)
(***************************************************************************)
Abs(n) == IF n < 0 THEN -n ELSE n
\* round-half-even of v millionths to hundredths (v >= 0)
RoundCenti(v) ==
  LET q == v \div 10000
      r == v % 10000
  IN IF r > 5000 \/ (r = 5000 /\ q % 2 = 1) THEN q + 1 ELSE q
\* f"{n}" of an int
FormatInt(n) == << IF n < 0 THEN "-" ELSE "", Abs(n), << >> >>
\* f"{v:.2f}" of a float
Format2f(v) ==
  LET c == RoundCenti(Abs(v))
  IN << IF v < 0 THEN "-" ELSE "", c \div 100, << (c % 100) \div 10, c % 10 >> >>
\* the value a numeral denotes, in hundredths
Centi(lex) ==
  LET frac == IF Len(lex[3]) = 0 THEN 0
              ELSE IF Len(lex[3]) = 1 THEN 10 * lex[3][1]
              ELSE 10 * lex[3][1] + lex[3][2]
      mag == 100 * lex[2] + frac
  IN IF lex[1] = "-" THEN -mag ELSE mag

(***************************************************************************)
(* Quad serializer: the f-string of every f.write, as its tokens           *)
(***************************************************************************)
\* (a line without its graph field)
SerializeNoGraph(ts, subject, lex) ==
  << ts, subject, TEMPERATURE, <<lex, XSD_DECIMAL>>, ".", "\n" >>
\* "{timestamp} <subject> <temperature> \"{value}\"^^<decimal> <sensorStream> .\n"
Serialize(ts, subject, lex) ==
  << ts, subject, TEMPERATURE, <<lex, XSD_DECIMAL>>, SENSOR_STREAM, ".", "\n" >>

\* (a step of 1001 ms)
TimestampStep1(g, start, i) ==
  IF g = HIST THEN BigAdd(start, i * 1001) ELSE Big(0, 1001 * i)
\* timestamp = one_hour_ago + (i * 1000)   /   timestamp = 1000 * i
Timestamp(g, start, i) ==
  IF g = HIST THEN BigAdd(start, i * 1000) ELSE Big(0, 1000 * i)

\* The first and the second line of iteration i.
Line1(g, start, i, x) ==
  Serialize(Timestamp(g, start, i), SENSOR1,
            IF g = HIST THEN FormatInt(HistVal1(i)) ELSE Format2f(Val1(i, x)))
Line2(g, start, i, x) ==
  Serialize(Timestamp(g, start, i), SENSOR2,
            IF g = HIST THEN FormatInt(HistVal2(i)) ELSE Format2f(Val2(i, x)))

(***************************************************************************)
(* State                                                                   *)
(***************************************************************************)
Procs == {1, 2}
Other(p) == 3 - p

VARIABLES
  file,          \* path -> the lines of the file on disk
  gen,           \* process -> the script it invokes
  pc,            \* process -> where its current run stands
  runs,          \* process -> how many runs it has started
  now,           \* process -> the clock reading of the run (historical)
  one_hour_ago,  \* process -> start instant of the run (historical)
  seed,          \* process -> state the random generator started the run in
  rng,           \* process -> state of the random generator
  i,             \* process -> loop index
  handle,        \* process -> the file object f: [open, pos]
  console,       \* process -> lines printed by the run
  discarded,     \* process -> open() discarded a file longer than this run's
  cpu,           \* the process that took the last step (0: none yet)
  preempted      \* a process has been preempted while running

vars == << file, gen, pc, runs, now, one_hour_ago, seed, rng, i, handle, console,
           discarded, cpu, preempted >>

Terminal == {"done", "failed"}
MidRun(p) == pc[p] \in {"open", "w1", "w2", "exit", "print"}

Closed == [open |-> FALSE, pos |-> 0]

\* The x the j-th draw of a run reads (j = 0, 1, ...).
RngAt(s, j) == (s + 7 * j) % RngStates

\* The lines a run of script g writes when nothing fails: two per index.
RunLines(g, start, s, n) ==
  [k \in 1..(2 * n) |->
     IF k % 2 = 1
       THEN Line1(g, start, (k - 1) \div 2, IF g = HIST THEN s ELSE RngAt(s, k - 1))
       ELSE Line2(g, start, (k - 1) \div 2, IF g = HIST THEN s ELSE RngAt(s, k - 1))]

\* What a data/ directory can hold before the first run: nothing, or the
\* output of an earlier version of the script with one more point.
Priors(g) == { << >>, RunLines(g, BigSub(Big(1699, 0), HourMs), 0, Points(g) + 1) }

Init ==
  /\ gen \in {f \in [Procs -> Gens] : f[2] = HIST}
  /\ file \in {f \in [Paths -> UNION {Priors(g) : g \in Gens}] :
                 /\ f[Path(gen[1])] \in Priors(gen[1])
                 /\ \A q \in Paths : q # Path(gen[1]) => f[q] = << >>}
  /\ pc = [p \in Procs |-> "idle"]
  /\ runs = [p \in Procs |-> 0]
  /\ now = [p \in Procs |-> Big(0, 0)]
  /\ one_hour_ago = [p \in Procs |-> Big(0, 0)]
  /\ seed = [p \in Procs |-> 0]
  /\ rng = [p \in Procs |-> 0]
  /\ i = [p \in Procs |-> 0]
  /\ handle = [p \in Procs |-> Closed]
  /\ console = [p \in Procs |-> << >>]
  /\ discarded = [p \in Procs |-> FALSE]
  /\ cpu = 0
  /\ preempted = FALSE

(***************************************************************************)
(* Scheduling: p takes the next step.  It may always go on, or take over   *)
(* from a process that is not in a run; it preempts a running process at   *)
(* most once, and only inside the preemption window.                       *)
(***************************************************************************)
Dispatch(p) ==
  /\ \/ cpu \in {0, p}
     \/ cpu = Other(p) /\ ~MidRun(cpu)
     \/ cpu = Other(p) /\ MidRun(cpu) /\ ~preempted /\ i[cpu] < PreemptWindow
  /\ cpu' = p
  /\ preempted' = (preempted \/ (cpu = Other(p) /\ MidRun(cpu)))

(***************************************************************************)
(* File operations                                                         *)
(***************************************************************************)
\* (mode "r+": the file keeps what it held)
TruncateKeep(content) == content
\* open(path, "w") discards what the file held.
Truncate(content) == << >>

\* f.write(line) through a handle at offset pos: at the end it appends,
\* inside the file it overwrites, beyond the end it leaves a hole.
Hole == << "\\0" >>
WriteAt(content, pos, line) ==
  IF pos < Len(content)
    THEN [content EXCEPT ![pos + 1] = line]
    ELSE content \o [k \in 1..(pos - Len(content)) |-> Hole] \o << line >>

\* (a handle left open)
CloseLeak(h) == h
\* Leaving the with block closes f.
Close(h) == [h EXCEPT !.open = FALSE]

\* The confirmation line.
Confirmation(g, start) ==
  IF g = HIST
    THEN << "Generated data/sensors_historical_graph.nq with start timestamp", start >>
    ELSE << "Generated data/realistic_sensors.nq with", num_points, "points" >>

(***************************************************************************)
(* Steps of a run                                                          *)
(***************************************************************************)
\* Lines 1-7 / 1-6: the script starts, reads the clock or the seeded
\* generator, and reaches the with statement.
Start(p, t, s) ==
  /\ Dispatch(p)
  /\ runs[p] < MaxRuns
  /\ runs' = [runs EXCEPT ![p] = @ + 1]
  /\ now' = [now EXCEPT ![p] = IF gen[p] = HIST THEN t ELSE Big(0, 0)]
  /\ one_hour_ago' = [one_hour_ago EXCEPT ![p] =
                        IF gen[p] = HIST THEN BigSub(t, HourMs) ELSE Big(0, 0)]
  /\ seed' = [seed EXCEPT ![p] = IF gen[p] = HIST THEN 0 ELSE s]
  /\ rng' = [rng EXCEPT ![p] = IF gen[p] = HIST THEN 0 ELSE s]
  /\ i' = [i EXCEPT ![p] = 0]
  /\ handle' = [handle EXCEPT ![p] = Closed]
  /\ console' = [console EXCEPT ![p] = << >>]
  /\ discarded' = [discarded EXCEPT ![p] = FALSE]
  /\ pc' = [pc EXCEPT ![p] = "open"]
  /\ UNCHANGED << file, gen >>

\* The first invocation of the script.
Invoke(p) ==
  /\ pc[p] = "idle"
  /\ \E t \in Nows, s \in Seeds : Start(p, t, s)

\* The script is run again after a run has ended.
Reinvoke(p) ==
  /\ pc[p] \in Terminal
  /\ \E t \in Nows, s \in Seeds : Start(p, t, s)

\* with open(path, "w") as f: succeeds.
OpenOk(p) ==
  /\ pc[p] = "open"
  /\ Dispatch(p)
  /\ discarded' = [discarded EXCEPT ![p] =
                     Len(file[Path(gen[p])]) > 2 * Points(gen[p])]
  /\ file' = [file EXCEPT ![Path(gen[p])] = Truncate(@)]
  /\ handle' = [handle EXCEPT ![p] = [open |-> TRUE, pos |-> 0]]
  /\ pc' = [pc EXCEPT ![p] = IF Points(gen[p]) > 0 THEN "w1" ELSE "exit"]
  /\ UNCHANGED << gen, runs, now, one_hour_ago, seed, rng, i, console >>

\* open() raises (no data/ directory, no permission): the run ends.
OpenFail(p) ==
  /\ pc[p] = "open"
  /\ Dispatch(p)
  /\ pc' = [pc EXCEPT ![p] = "failed"]
  /\ UNCHANGED << file, gen, runs, now, one_hour_ago, seed, rng, i, handle,
                  console, discarded >>

\* The random generator after the draw of a line (the historical script
\* draws nothing).
Drawn(p) == IF gen[p] = HIST THEN rng[p] ELSE RngNext(rng[p])

\* The first f.write of iteration i succeeds.
Write1Ok(p) ==
  /\ pc[p] = "w1"
  /\ Dispatch(p)
  /\ file' = [file EXCEPT ![Path(gen[p])] =
                WriteAt(@, handle[p].pos, Line1(gen[p], one_hour_ago[p], i[p], rng[p]))]
  /\ handle' = [handle EXCEPT ![p].pos = @ + 1]
  /\ rng' = [rng EXCEPT ![p] = Drawn(p)]
  /\ pc' = [pc EXCEPT ![p] = "w2"]
  /\ UNCHANGED << gen, runs, now, one_hour_ago, seed, i, console, discarded >>

\* The second f.write of iteration i succeeds; the loop goes on or ends.
Write2Ok(p) ==
  /\ pc[p] = "w2"
  /\ Dispatch(p)
  /\ file' = [file EXCEPT ![Path(gen[p])] =
                WriteAt(@, handle[p].pos, Line2(gen[p], one_hour_ago[p], i[p], rng[p]))]
  /\ handle' = [handle EXCEPT ![p].pos = @ + 1]
  /\ rng' = [rng EXCEPT ![p] = Drawn(p)]
  /\ i' = [i EXCEPT ![p] = @ + 1]
  /\ pc' = [pc EXCEPT ![p] = IF i[p] + 1 < Points(gen[p]) THEN "w1" ELSE "exit"]
  /\ UNCHANGED << gen, runs, now, one_hour_ago, seed, console, discarded >>

\* (a script that deleted its partial output on a failed write)
WriteFailCleanup(p) ==
  /\ pc[p] \in {"w1", "w2"}
  /\ Dispatch(p)
  /\ rng' = [rng EXCEPT ![p] = Drawn(p)]
  /\ handle' = [handle EXCEPT ![p] = Close(@)]
  /\ file' = [file EXCEPT ![Path(gen[p])] = << >>]
  /\ pc' = [pc EXCEPT ![p] = "failed"]
  /\ UNCHANGED << gen, runs, now, one_hour_ago, seed, i, console, discarded >>

\* An f.write raises: the exception leaves the with block, which closes f,
\* and ends the script; nothing catches it.
WriteFail(p) ==
  /\ pc[p] \in {"w1", "w2"}
  /\ Dispatch(p)
  /\ rng' = [rng EXCEPT ![p] = Drawn(p)]
  /\ handle' = [handle EXCEPT ![p] = Close(@)]
  /\ pc' = [pc EXCEPT ![p] = "failed"]
  /\ UNCHANGED << file, gen, runs, now, one_hour_ago, seed, i, console, discarded >>

\* The loop is over: the with block is left and closes f.
ExitWith(p) ==
  /\ pc[p] = "exit"
  /\ Dispatch(p)
  /\ handle' = [handle EXCEPT ![p] = Close(@)]
  /\ pc' = [pc EXCEPT ![p] = "print"]
  /\ UNCHANGED << file, gen, runs, now, one_hour_ago, seed, rng, i, console, discarded >>

\* (a script that printed its confirmation inside the loop's last pass too)
PrintTwice(p) ==
  /\ pc[p] = "print"
  /\ Dispatch(p)
  /\ console' = [console EXCEPT ![p] =
                   @ \o << Confirmation(gen[p], one_hour_ago[p]),
                           Confirmation(gen[p], one_hour_ago[p]) >>]
  /\ pc' = [pc EXCEPT ![p] = "done"]
  /\ UNCHANGED << file, gen, runs, now, one_hour_ago, seed, rng, i, handle, discarded >>

\* print(...): the last statement.
PrintConfirmation(p) ==
  /\ pc[p] = "print"
  /\ Dispatch(p)
  /\ console' = [console EXCEPT ![p] = Append(@, Confirmation(gen[p], one_hour_ago[p]))]
  /\ pc' = [pc EXCEPT ![p] = "done"]
  /\ UNCHANGED << file, gen, runs, now, one_hour_ago, seed, rng, i, handle, discarded >>

(***************************************************************************)
(* One shell running one script, again and again; any I/O call may fail.   *)
(***************************************************************************)
Next ==
  \/ Invoke(1)
  \/ Reinvoke(1)
  \/ OpenOk(1)
  \/ OpenFail(1)
  \/ Write1Ok(1)
  \/ Write2Ok(1)
  \/ WriteFail(1)
  \/ ExitWith(1)
  \/ PrintConfirmation(1)

Spec == Init /\ [][Next]_vars

\* A step of the run in progress (as opposed to a new invocation).
RunStep ==
  \/ OpenOk(1)
  \/ OpenFail(1)
  \/ Write1Ok(1)
  \/ Write2Ok(1)
  \/ WriteFail(1)
  \/ ExitWith(1)
  \/ PrintConfirmation(1)

(***************************************************************************)
(* Two shells at once, one run each, no I/O failure: process 2 runs the    *)
(* historical script, process 1 either script.  Neither script takes a     *)
(* lock, so the steps of the two runs interleave.                          *)
(***************************************************************************)
NextConc ==
  \E p \in Procs :
    \/ Invoke(p)
    \/ OpenOk(p)
    \/ Write1Ok(p)
    \/ Write2Ok(p)
    \/ ExitWith(p)
    \/ PrintConfirmation(p)

SpecConc == Init /\ [][NextConc]_vars

(***************************************************************************)
(* Properties                                                              *)
(***************************************************************************)
\* The output file of process 1, and its k-th line's fields.
Out == file[Path(gen[1])]
TsOf(line) == line[1]
SubjectOf(line) == line[2]
LexOf(line) == line[4][1]
\* a - b for two instants less than 10^9 apart
BigDiff(a, b) == (a[1] - b[1]) * Limb + (a[2] - b[2])
\* The instant of index 0 of the run of process 1.
StartOf == IF gen[1] = HIST THEN one_hour_ago[1] ELSE Big(0, 0)
\* The run of process 1 has written its last line at offset pos.
Writing == handle[1].open /\ handle[1].pos > 0

\* C1: a run that completes leaves exactly 2 x N lines in its file, a sensor1
\* line and a sensor2 line for every index i in [0, N): 200 lines for the
\* historical script (N = 100), 2000 for the realistic one (N = 1000).
C1_LineCount ==
  pc[1] = "done" =>
    LET n == IF gen[1] = HIST THEN 100 ELSE 1000
    IN /\ Len(Out) = 2 * n
       /\ Len(Out) = IF gen[1] = HIST THEN 200 ELSE 2000
       /\ \A k \in 0..(n - 1) :
            /\ SubjectOf(Out[2 * k + 1]) = SENSOR1
            /\ SubjectOf(Out[2 * k + 2]) = SENSOR2
            /\ BigDiff(TsOf(Out[2 * k + 1]), StartOf) = 1000 * k
            /\ BigDiff(TsOf(Out[2 * k + 2]), StartOf) = 1000 * k

C1_Witness ==
  /\ pc[1] = "done" /\ gen[1] = HIST /\ Len(Out) = 200
  /\ SubjectOf(Out[199]) = SENSOR1 /\ SubjectOf(Out[200]) = SENSOR2

\* C2: the two lines of index i carry the same timestamp start + 1000 * i,
\* with start = now - 3600000 (historical) or 0 (realistic); sensor1 and
\* sensor2 agree at every index, successive lines of one sensor are 1000
\* apart, and now = 1700000000000 puts 1699996400000 on the first line.
C2_Timestamps ==
  /\ Writing =>
       BigDiff(TsOf(Out[handle[1].pos]), StartOf) = 1000 * ((handle[1].pos - 1) \div 2)
  /\ (Writing /\ gen[1] = HIST) => BigDiff(now[1], one_hour_ago[1]) = 3600000
  /\ (Writing /\ gen[1] = HIST /\ now[1] = <<1700, 0>>) =>
       TsOf(Out[1]) = <<1699, 996400000>>
  /\ pc[1] = "done" =>
       /\ \A k \in 1..(Len(Out) \div 2) :
            /\ TsOf(Out[2 * k - 1]) = TsOf(Out[2 * k])
            /\ BigDiff(TsOf(Out[2 * k]), StartOf) = 1000 * (k - 1)
       /\ \A k \in 1..(Len(Out) - 2) :
            BigDiff(TsOf(Out[k + 2]), TsOf(Out[k])) = 1000

C2_Witness ==
  /\ pc[1] = "done" /\ gen[1] = HIST /\ now[1] = <<1700, 0>>
  /\ TsOf(Out[1]) = <<1699, 996400000>>
  /\ TsOf(Out[200]) = <<1699, 996499000>>

\* C3: in the historical script the literal of index i is the integer
\* 20 + (i mod 5) for sensor1 and 22 + (i mod 5) for sensor2: sensor1 values
\* lie in 20..24, sensor2 values in 22..26, and sensor2 exceeds sensor1 of
\* the same index by exactly 2.
C3_HistoricalValues ==
  (pc[1] = "done" /\ gen[1] = HIST) =>
    \A k \in 0..99 :
      LET l1 == LexOf(Out[2 * k + 1])
          l2 == LexOf(Out[2 * k + 2])
      IN /\ l1 = << "", 20 + (k % 5), << >> >>
         /\ l2 = << "", 22 + (k % 5), << >> >>
         /\ l1[2] \in {20, 21, 22, 23, 24}
         /\ l2[2] \in {22, 23, 24, 25, 26}
         /\ l2[2] - l1[2] = 2

C3_Witness ==
  /\ pc[1] = "done" /\ gen[1] = HIST
  /\ LexOf(Out[9])[2] = 24 /\ LexOf(Out[10])[2] = 26
  /\ LexOf(Out[11])[2] = 20 /\ LexOf(Out[12])[2] = 22

\* C4: a run overwrites the file completely: after a completed run the file
\* holds exactly the lines of that run, whatever it held before, a longer
\* file included.
C4_Overwrite ==
  /\ handle[1].open => Len(Out) = handle[1].pos
  /\ pc[1] = "done" =>
       Out = RunLines(gen[1], one_hour_ago[1], seed[1], Points(gen[1]))

C4_Witness ==
  pc[1] = "done" /\ discarded[1] /\ Len(Out) = 2 * Points(gen[1])

\* C8: every line written has the 5 fields timestamp, subject, predicate,
\* literal, graph in this order, then a period and a newline; the subject is
\* sensor1 or sensor2, the predicate temperature, the graph sensorStream and
\* the literal is tagged xsd:decimal.
WellFormed(line) ==
  /\ Len(line) = 7
  /\ Len(line[1]) = 2 /\ line[1][1] \in Nat /\ line[1][2] \in 0..(Limb - 1)
  /\ line[2] \in {SENSOR1, SENSOR2}
  /\ line[3] = "<http://example.org/temperature>"
  /\ Len(line[4]) = 2
  /\ Len(line[4][1]) = 3 /\ line[4][1][2] \in Nat
  /\ line[4][2] = "<http://www.w3.org/2001/XMLSchema#decimal>"
  /\ line[5] = "<http://example.org/sensorStream>"
  /\ line[6] = "."
  /\ line[7] = "\n"

C8_LineFormat ==
  /\ Writing => WellFormed(Out[handle[1].pos])
  /\ pc[1] = "done" => \A k \in 1..Len(Out) : WellFormed(Out[k])

C8_Witness ==
  /\ gen[1] = REAL /\ Writing /\ handle[1].pos = 4
  /\ Out[4][2] = SENSOR2 /\ Out[4][5] = SENSOR_STREAM /\ Len(Out[4][4][1][3]) = 2

\* C10: in the realistic script the value of index i is
\* 23.0 + 2.0 * sin(2*pi*i/100) + noise1 for sensor1 and
\* 23.0 + 2.0 * cos(2*pi*i/100) + noise2 for sensor2, noise1 and noise2 two
\* draws in [-0.5, 0.5]; at i = 0 the sensor1 literal lies in [22.50, 23.50]
\* and the sensor2 literal in [24.50, 25.50], and every literal lies in
\* [20.50, 25.50].
\* |literal - wave| <= 0.5 up to the half hundredth the formatting rounds by
NearWave(lex, wave) == Abs(10000 * Centi(lex) - wave) <= 500000 + 5000
\* The line a realistic run has just written, at offset pos, has index k.
LastValueOk ==
  LET k == (handle[1].pos - 1) \div 2
      lex == LexOf(Out[handle[1].pos])
  IN /\ Len(lex[3]) = 2
     /\ Centi(lex) \in 2050..2550
     /\ handle[1].pos % 2 = 1 => NearWave(lex, 23000000 + 2 * Sin100(k))
     /\ handle[1].pos % 2 = 0 => NearWave(lex, 23000000 + 2 * Cos100(k))
     /\ handle[1].pos = 1 => Centi(lex) \in 2250..2350
     /\ handle[1].pos = 2 => Centi(lex) \in 2450..2550
C10_RealisticValues ==
  /\ (gen[1] = REAL /\ pc[1] = "w1") => rng[1] = RngAt(seed[1], 2 * i[1])
  /\ (gen[1] = REAL /\ pc[1] = "w2") => rng[1] = RngAt(seed[1], 2 * i[1] + 1)
  /\ (gen[1] = REAL /\ Writing) => LastValueOk
  /\ (gen[1] = REAL /\ pc[1] = "done") =>
       /\ Centi(LexOf(Out[1])) \in 2250..2350
       /\ Centi(LexOf(Out[2])) \in 2450..2550
       /\ \A k \in 0..999 :
            LET l1 == LexOf(Out[2 * k + 1])
                l2 == LexOf(Out[2 * k + 2])
            IN /\ Len(l1[3]) = 2 /\ Len(l2[3]) = 2
               /\ NearWave(l1, 23000000 + 2 * Sin100(k))
               /\ NearWave(l2, 23000000 + 2 * Cos100(k))
               /\ Centi(l1) \in 2050..2550
               /\ Centi(l2) \in 2050..2550

\* index 0 at the lowest noise, index 25 at the crest of the sine
C10_Witness ==
  /\ gen[1] = REAL /\ pc[1] = "w1" /\ i[1] = 26
  /\ Centi(LexOf(Out[1])) = 2250
  /\ Centi(LexOf(Out[51])) > 2500

\* C5: a failure to open the file or to write a line is fatal and
\* unrecovered: the run ends at once, writes no later line, does not retry,
\* does not remove the lines already written, and prints no confirmation.
Fails == pc[1] \in {"open", "w1", "w2"} /\ pc'[1] = "failed"
C6_HandleClosed ==
  /\ [](pc[1] \in {"idle", "open", "print", "done", "failed"} => ~handle[1].open)
  /\ [](pc[1] \in {"w1", "w2", "exit"} => handle[1].open)
  /\ [][file' # file => handle'[1].open]_vars

C6_Witness ==
  pc[1] = "failed" /\ ~handle[1].open /\ handle[1].pos = 2 * Points(gen[1]) - 1

\* C9: every run terminates, either completed (all 2 x N lines written, the
\* file closed, then exactly one confirmation line printed) or aborted by an
\* I/O failure; there is no other terminal state.  Termination is stated by
\* a variant: a run in progress can always take a step, and every step of a
\* run lowers StepsLeft, which is never negative.
StepsLeft ==
  CASE pc[1] = "open"  -> 2 * Points(gen[1]) + 3
    [] pc[1] = "w1"    -> 2 * (Points(gen[1]) - i[1]) + 2
    [] pc[1] = "w2"    -> 2 * (Points(gen[1]) - i[1]) + 1
    [] pc[1] = "exit"  -> 2
    [] pc[1] = "print" -> 1
    [] OTHER           -> 0
C9_Termination ==
  /\ [](pc[1] \in {"idle", "open", "w1", "w2", "exit", "print", "done", "failed"})
  /\ [](MidRun(1) => ENABLED RunStep)
  /\ [](StepsLeft >= 0 /\ (StepsLeft = 0 <=> ~MidRun(1)))
  /\ [][MidRun(1) => StepsLeft' < StepsLeft]_vars
  /\ [](pc[1] = "done" => /\ Len(Out) = 2 * Points(gen[1])
                            /\ handle[1].pos = 2 * Points(gen[1])
                            /\ ~handle[1].open
                            /\ Len(console[1]) = 1)
  /\ [](pc[1] # "done" => console[1] = << >>)
  /\ [][pc'[1] = "print" /\ pc[1] # "print" =>
          ~handle'[1].open /\ Len(Out) = 2 * Points(gen[1])]_vars

C9_Witness ==
  /\ pc[1] = "done" /\ runs[1] = 2
  /\ console[1] = << Confirmation(gen[1], one_hour_ago[1]) >>

\* C7 (as stated): runs share no state and each owns its file for its
\* lifetime, so for any interleaving of two runs, two runs of the same
\* script included, the file a run leaves behind when it leaves the with
\* block is the one it would have left had it run alone.
LinesOf(p) == RunLines(gen[p], one_hour_ago[p], seed[p], Points(gen[p]))
====
